---- MODULE Spec2Model ----
(***************************************************************************)
(* Backtest engine of alphagen-ai: the simulator runRealBacktest and the    *)
(* trade reconstructor buildLongOnlyTrades.                                *)
(*                                                                         *)
(* JavaScript numbers are modelled as extended reals: NaN, +Infinity,      *)
(* -Infinity, exact rationals ("fin"), and finite irrational results of    *)
(* Math.sqrt / Math.pow ("sym"), which carry a strict rational enclosure   *)
(* lo < value < hi.  Rounding error of doubles is not modelled; all zeros  *)
(* are +0 (closes are never negative, so no -0 is ever produced).          *)
(***************************************************************************)
EXTENDS Integers, Sequences, FiniteSets, TLC

\* ------------------------------------------------------------------ bounds
MaxLen == 4        \* longest price series given to runRealBacktest
MaxData == 3       \* longest signal stream given to buildLongOnlyTrades
MaxClose == 2      \* closes range over 0..MaxClose
MaxShift == 1      \* the price window starts on FirstDay .. FirstDay+MaxShift
MaxTwice == 3      \* longest price series of a repeated call
MaxReply == 2      \* most quotes of a chart answer, most points of a service reply
DayParts == 2      \* instants of a day at which a quote can be stamped
MaxKeys == 2       \* most API keys configured in GEMINI_KEYS
MaxCalls == 2      \* generation requests served one after the other

MaxExchanges == 2  \* most code exchanges of one tab
MaxSims == 3       \* most simulations started by one page
FirstDay == 7      \* day of month (January 2024) of the earliest window start

\* ------------------------------------------------------- JavaScript numbers
RECURSIVE GCD(_, _)
GCD(a, b) == IF b = 0 THEN a ELSE GCD(b, a % b)

Abs(n) == IF n < 0 THEN -n ELSE n

\* a bound of an enclosure: <<n, d>> with d > 0 a rational, <<1, 0>> = +oo,
\* <<-1, 0>> = -oo
Bnd(n, d) ==
  IF d = 0 THEN <<(IF n < 0 THEN -1 ELSE 1), 0>>
  ELSE LET g == GCD(Abs(n), Abs(d))
           s == IF d < 0 THEN -1 ELSE 1
       IN <<(s * n) \div g, (s * d) \div g>>

NoBnd == <<0, 1>>

NaN == [k |-> "nan", n |-> 0, d |-> 1, lo |-> NoBnd, hi |-> NoBnd]
PInf == [k |-> "pinf", n |-> 0, d |-> 1, lo |-> NoBnd, hi |-> NoBnd]
NInf == [k |-> "ninf", n |-> 0, d |-> 1, lo |-> NoBnd, hi |-> NoBnd]

\* the rational n/d, d # 0, in lowest terms
Fin(n, d) ==
  LET b == Bnd(n, d)
  IN [k |-> "fin", n |-> b[1], d |-> b[2], lo |-> NoBnd, hi |-> NoBnd]

\* a finite non-zero real known only to lie strictly between lo and hi
Sym(lo, hi) == [k |-> "sym", n |-> 0, d |-> 1, lo |-> lo, hi |-> hi]

Zero == Fin(0, 1)
One == Fin(1, 1)
Hundred == Fin(100, 1)
Num(n) == Fin(n, 1)

IsNaN(x) == x.k = "nan"
IsInf(x) == x.k \in {"pinf", "ninf"}
\* Number.isFinite
IsFinite(x) == x.k \in {"fin", "sym"}
IsZero(x) == x.k = "fin" /\ x.n = 0

Lo(x) == IF x.k = "fin" THEN <<x.n, x.d>> ELSE x.lo
Hi(x) == IF x.k = "fin" THEN <<x.n, x.d>> ELSE x.hi

\* sign of a non-NaN number: -1, 0, 1
Sgn(x) ==
  CASE x.k = "pinf" -> 1
    [] x.k = "ninf" -> -1
    [] x.k = "fin" -> (IF x.n > 0 THEN 1 ELSE IF x.n < 0 THEN -1 ELSE 0)
    [] x.k = "sym" /\ x.lo[2] # 0 /\ x.lo[1] >= 0 -> 1
    [] x.k = "sym" /\ x.hi[2] # 0 /\ x.hi[1] <= 0 -> -1

BNeg(b) == <<-b[1], b[2]>>
BAdd(a, b) ==
  IF a[2] = 0 THEN a ELSE IF b[2] = 0 THEN b
  ELSE Bnd(a[1] * b[2] + b[1] * a[2], a[2] * b[2])
BMul(a, b) ==
  IF a[1] = 0 \/ b[1] = 0 THEN <<0, 1>>
  ELSE IF a[2] = 0 \/ b[2] = 0
       THEN <<(IF (a[1] < 0) = (b[1] < 0) THEN 1 ELSE -1), 0>>
       ELSE Bnd(a[1] * b[1], a[2] * b[2])
\* 1/b for a bound b >= 0 (1/0 = +oo, 1/+oo = 0)
BInv(b) == IF b[2] = 0 THEN <<0, 1>> ELSE Bnd(b[2], b[1])

XNeg(x) ==
  CASE x.k = "nan" -> NaN
    [] x.k = "pinf" -> NInf
    [] x.k = "ninf" -> PInf
    [] x.k = "fin" -> Fin(-x.n, x.d)
    [] x.k = "sym" -> Sym(BNeg(x.hi), BNeg(x.lo))

\* a + b
XAdd(a, b) ==
  CASE IsNaN(a) \/ IsNaN(b) -> NaN
    [] ~IsNaN(b) /\ IsInf(a) -> (IF IsInf(b) /\ a.k # b.k THEN NaN ELSE a)
    [] IsFinite(a) /\ IsInf(b) -> b
    [] a.k = "fin" /\ b.k = "fin" -> Fin(a.n * b.d + b.n * a.d, a.d * b.d)
    [] IsFinite(a) /\ IsFinite(b) /\ "sym" \in {a.k, b.k} ->
         Sym(BAdd(Lo(a), Lo(b)), BAdd(Hi(a), Hi(b)))

\* a - b
XSub(a, b) == XAdd(a, XNeg(b))

\* a * b
XMul(a, b) ==
  CASE IsNaN(a) \/ IsNaN(b) -> NaN
    [] ~IsNaN(a) /\ ~IsNaN(b) /\ (IsInf(a) \/ IsInf(b)) ->
         (IF IsZero(a) \/ IsZero(b) THEN NaN
          ELSE IF Sgn(a) = Sgn(b) THEN PInf ELSE NInf)
    [] a.k = "fin" /\ b.k = "fin" -> Fin(a.n * b.n, a.d * b.d)
    [] IsFinite(a) /\ IsFinite(b) /\ "sym" \in {a.k, b.k} ->
         (IF IsZero(a) \/ IsZero(b) THEN Zero
          ELSE IF Sgn(a) = 1 /\ Sgn(b) = 1
               THEN Sym(BMul(Lo(a), Lo(b)), BMul(Hi(a), Hi(b)))
          ELSE IF Sgn(a) = -1 /\ Sgn(b) = -1
               THEN Sym(BMul(Hi(a), Hi(b)), BMul(Lo(a), Lo(b)))
          ELSE IF Sgn(a) = 1
               THEN Sym(BMul(Hi(a), Lo(b)), BMul(Lo(a), Hi(b)))
               ELSE Sym(BMul(Lo(a), Hi(b)), BMul(Hi(a), Lo(b))))

\* 1 / b for a finite non-zero b
XInv(b) ==
  CASE b.k = "fin" -> Fin(b.d, b.n)
    [] b.k = "sym" /\ Sgn(b) = 1 -> Sym(BInv(b.hi), BInv(b.lo))
    [] b.k = "sym" /\ Sgn(b) = -1 ->
         Sym(BNeg(BInv(BNeg(b.hi))), BNeg(BInv(BNeg(b.lo))))

\* a / b
XDiv(a, b) ==
  CASE IsNaN(a) \/ IsNaN(b) -> NaN
    [] ~IsNaN(a) /\ IsZero(b) ->
         (IF IsZero(a) THEN NaN ELSE IF Sgn(a) = 1 THEN PInf ELSE NInf)
    [] IsInf(a) /\ ~IsNaN(b) /\ ~IsZero(b) ->
         (IF IsInf(b) THEN NaN ELSE IF Sgn(a) = Sgn(b) THEN PInf ELSE NInf)
    [] IsFinite(a) /\ IsInf(b) -> Zero
    [] IsFinite(a) /\ IsFinite(b) /\ ~IsZero(b) -> XMul(a, XInv(b))

\* a > b, a < b, a >= b (false whenever NaN is involved)
XGt(a, b) ==
  IF IsNaN(a) \/ IsNaN(b) THEN FALSE
  ELSE LET s == XSub(a, b) IN IF IsNaN(s) THEN FALSE ELSE Sgn(s) = 1
XLt(a, b) == XGt(b, a)
XGe(a, b) == ~IsNaN(a) /\ ~IsNaN(b) /\ (a = b \/ XGt(a, b))
XLe(a, b) == XGe(b, a)

\* JavaScript truthiness of a number: 0 and NaN are falsy
Truthy(x) == ~IsNaN(x) /\ ~IsZero(x)
\* a || b
XOr(a, b) == IF Truthy(a) THEN a ELSE b

\* floor of the square root of a natural number
RECURSIVE ISqrtFrom(_, _)
ISqrtFrom(n, s) == IF (s + 1) * (s + 1) > n THEN s ELSE ISqrtFrom(n, s + 1)
ISqrt(n) == ISqrtFrom(n, 0)

\* Math.sqrt
Sqrt(x) ==
  CASE x.k = "nan" -> NaN
    [] x.k = "ninf" -> NaN
    [] x.k = "pinf" -> PInf
    [] x.k = "fin" /\ x.n < 0 -> NaN
    [] x.k = "fin" /\ x.n >= 0 ->
         LET sn == ISqrt(x.n)
             sd == ISqrt(x.d)
         IN IF sn * sn = x.n /\ sd * sd = x.d THEN Fin(sn, sd)
            ELSE Sym(Bnd(sn, sd + 1), Bnd(sn + 1, sd))

\* Math.pow(b, e) for the arguments the simulator passes: b is NaN, +Infinity
\* or a rational >= 0 and e is NaN, +Infinity or a rational > 0.  ECMAScript
\* returns NaN for pow(1, Infinity).  A finite base other than 0 and 1 with a
\* fractional or large exponent has no exact representation here; bases and
\* exponents stay far inside the double range (|e * log2 b| < 1022).
Pow(b, e) ==
  CASE IsNaN(e) -> NaN
    [] ~IsNaN(e) /\ IsNaN(b) -> NaN
    [] e.k = "pinf" /\ b.k = "pinf" -> PInf
    [] e.k = "pinf" /\ b.k = "fin" ->
         (IF b = One THEN NaN ELSE IF XGt(b, One) THEN PInf ELSE Zero)
    [] e.k = "fin" /\ e.n > 0 /\ b.k = "pinf" -> PInf
    [] e.k = "fin" /\ e.n > 0 /\ b.k = "fin" /\ b.n >= 0 ->
         (IF b = Zero \/ b = One \/ e = One THEN b
          ELSE IF XGt(b, One) THEN Sym(<<1, 1>>, <<1, 0>>)
          ELSE Sym(<<0, 1>>, <<1, 1>>))

\* ------------------------------------------------------------------ strings
\* a string is the sequence of its UTF-16 code units
RECURSIVE CharCodeSum(_)
\* Array.from(s).reduce((acc, char) => acc + char.charCodeAt(0), 0)
CharCodeSum(s) == IF s = <<>> THEN 0 ELSE s[1] + CharCodeSum(Tail(s))

\* String.prototype.includes
Includes(s, sub) ==
  \E k \in 0..(Len(s) - Len(sub)) : SubSeq(s, k + 1, k + Len(sub)) = sub

\* the ISO date "2024-01-DD" of day DD of January 2024
DateString(day) ==
  <<50, 48, 50, 52, 45, 48, 49, 45, 48 + (day \div 10), 48 + (day % 10)>>

USD == <<85, 83, 68>>
BTC_USD == <<66, 84, 67, 45, 85, 83, 68>>
ETH_USD == <<69, 84, 72, 45, 85, 83, 68>>
SP_500 == <<83, 38, 80, 32, 53, 48, 48>>
CSI_300 == <<67, 83, 73, 32, 51, 48, 48>>
CUSTOM_A == <<67, 85, 83, 84, 79, 77, 95, 65>>
BenchmarkType == {BTC_USD, SP_500, CSI_300, ETH_USD, CUSTOM_A}

\* the formulas "std", "sma" and "low"
Formulas == {<<115, 116, 100>>, <<115, 109, 97>>, <<108, 111, 119>>}

\* a value that is not a number (null / undefined close)
NoClose == -1

\* ------------------------------------------------------------------- state
VARIABLES
  formula, priceSeries, benchmark,     \* arguments of runRealBacktest
  points, trades, cumStrategy, cumBenchmark, currentPosition, cash, holdings,
  i, metrics, pc,                      \* locals of runRealBacktest
  data,                                \* argument of buildLongOnlyTrades
  priceMap, ledger, position, ltCash, ltHoldings, idx, ltpc,
  run, first,                          \* a second call on the same inputs
  op,                                  \* the service function called
  rbBenchmark, pythonCode,             \* arguments of runBacktest
  chart,                               \* the answer of yahooFinance.chart
  priceData, pythonScript, reply, payload,
  error,                               \* the error thrown to the caller
  providerCalls,                       \* calls of yahooFinance.chart
  rbpc,
  numKeys, geminiKeyIndex,             \* GEMINI_KEYS.length, geminiKeyIndex
  attempts, lastError,                 \* locals of withGeminiClient
  requests, failures,                  \* requests issued, errors received
  text, thrown, calls, gpc,
  clientId, rawAllowed,                \* configuration of the login
  oauthState, userSession,             \* sessionStorage / localStorage items
  url, storedState, exchanges, lpc,    \* completeGithubLogin
  user, factors, activeFactorId,       \* state of the App component
  selectedBenchmark, simulationData, isSimulating, isSyncing, appError,
  simRequests, loadRequests,           \* requests of App in flight
  localFactors,                        \* localStorage item alpha_factors
  started, lastStarted, loggedOut,     \* history of App
  apc

realVars == <<formula, priceSeries, benchmark, points, trades, cumStrategy,
              cumBenchmark, currentPosition, cash, holdings, i, metrics, pc>>
ledgerVars == <<data, priceMap, ledger, position, ltCash, ltHoldings,
                idx, ltpc>>
twiceVars == <<run, first>>
serverVars == <<op, rbBenchmark, pythonCode, chart, priceData, pythonScript,
                reply, payload, error, providerCalls, rbpc>>
geminiVars == <<numKeys, geminiKeyIndex, attempts, lastError, requests,
                failures, text, thrown, calls, gpc>>
loginVars == <<clientId, rawAllowed, oauthState, userSession, url,
               storedState, exchanges, lpc>>
appVars == <<user, factors, activeFactorId, selectedBenchmark, simulationData,
             isSimulating, isSyncing, appError, simRequests, loadRequests,
             localFactors, started, lastStarted, loggedOut, apc>>
clientVars == <<loginVars, appVars>>
restVars == <<twiceVars, serverVars, geminiVars, clientVars>>
vars == <<realVars, ledgerVars, restVars>>

\* the page has not been opened
LoginIdle ==
  /\ clientId = ""
  /\ rawAllowed = <<>>
  /\ oauthState = ""
  /\ userSession = <<>>
  /\ url = [flag |-> "", code |-> "", state |-> ""]
  /\ storedState = ""
  /\ exchanges = 0
  /\ lpc = "idle"

\* the useState initial values of App, nothing in flight
AppIdle ==
  /\ user = ""
  /\ factors = <<>>
  /\ activeFactorId = ""
  /\ selectedBenchmark = <<>>
  /\ simulationData = <<>>
  /\ isSimulating = FALSE
  /\ isSyncing = FALSE
  /\ appError = ""
  /\ simRequests = {}
  /\ loadRequests = {}
  /\ localFactors = <<>>
  /\ started = 0
  /\ lastStarted = <<>>
  /\ loggedOut = FALSE
  /\ apc = "idle"

ClientIdle == LoginIdle /\ AppIdle

\* no second call is under way
TwiceIdle ==
  /\ run = 1
  /\ first = <<>>

\* no call of withGeminiClient is under way
GeminiLocals ==
  /\ attempts = 0
  /\ lastError = <<>>
  /\ requests = 0
  /\ failures = <<>>
  /\ text = <<>>
  /\ thrown = <<>>

GeminiIdle ==
  /\ numKeys = 1
  /\ geminiKeyIndex = 0
  /\ GeminiLocals
  /\ calls = 0
  /\ gpc = "idle"

\* no service function has been called
ServerLocals ==
  /\ chart = <<>>
  /\ priceData = <<>>
  /\ pythonScript = ""
  /\ reply = <<>>
  /\ payload = <<>>
  /\ error = <<>>
  /\ providerCalls = 0

ServerIdle ==
  /\ op = ""
  /\ rbBenchmark = <<>>
  /\ pythonCode = ""
  /\ ServerLocals
  /\ rbpc = "idle"

Last(s) == s[Len(s)]

\* ---------------------------------------------------------- runRealBacktest
\* SeededRandom.next(): the new seed, and the returned score seed / 233280
NextSeed(seed) == (seed * 9301 + 49297) % 233280
SeededRandomNext(seed) == Fin(NextSeed(seed), 233280)

\* the score of the day: new SeededRandom(daySeed).next()
\* (mutation: the seed of the day also counts the calls made so far)
SignalScoreOfCall(f, date) ==
  SeededRandomNext(CharCodeSum(f \o DateString(date)) + run)

SignalScore(f, date) == SeededRandomNext(CharCodeSum(f \o DateString(date)))

BuyCutoff == Fin(7, 10)
SellCutoff == Fin(3, 10)

\* (mutation: a low score sells whatever the current position)
IsSellAlways(pos, score) == XLt(score, SellCutoff)

\* the branch taken by the if / else if of the loop body
IsBuy(pos, score) == pos = 0 /\ XGt(score, BuyCutoff)
IsSell(pos, score) == pos = 1 /\ XLt(score, SellCutoff)

\* (currPrice - prevPrice) / prevPrice
BenchmarkReturn(currPrice, prevPrice) ==
  XDiv(XSub(currPrice, prevPrice), prevPrice)

\* the cumulative strategy value of the previous point, 100 before the first
PrevCumulative(pts) ==
  IF Len(pts) > 0 THEN Last(pts).cumulativeStrategy ELSE Hundred

\* (currentStrategyValue - prev) / prev
StrategyReturn(value, prev) == XDiv(XSub(value, prev), prev)

\* (mutation: the loop stops one point early)
LoopCondShort(k, ps) == k < Len(ps) - 1

\* the loop condition i < priceSeries.length (i is the 0-based index)
LoopCond(k, ps) == k < Len(ps)

\* priceSeries[k] with a 0-based index
At(ps, k) == ps[k + 1]

NoMetrics ==
  [sharpeRatio |-> Zero, annualizedReturn |-> Zero, maxDrawdown |-> Zero,
   volatility |-> Zero, winRate |-> Zero, benchmarkName |-> <<>>,
   daysInYear |-> 0]

\* one iteration of the for loop
RealStep ==
  /\ pc = "loop"
  /\ LoopCond(i, priceSeries)
  /\ LET prevPrice == Num(At(priceSeries, i - 1).close)
         currPrice == Num(At(priceSeries, i).close)
         date == At(priceSeries, i).date
         bReturn == BenchmarkReturn(currPrice, prevPrice)
         signalScore == SignalScore(formula, date)
         buy == IsBuy(currentPosition, signalScore)
         sell == ~buy /\ IsSell(currentPosition, signalScore)
         signal == IF buy THEN "BUY" ELSE IF sell THEN "SELL" ELSE "NONE"
         newPosition == IF buy THEN 1 ELSE IF sell THEN 0 ELSE currentPosition
         newHoldings == IF buy THEN XDiv(cash, currPrice)
                        ELSE IF sell THEN Zero ELSE holdings
         newCash == IF buy THEN Zero
                    ELSE IF sell THEN XMul(holdings, currPrice) ELSE cash
         newTrades ==
           IF buy THEN Append(trades,
                  [date |-> date, type |-> "BUY", price |-> currPrice,
                   quantity |-> newHoldings,
                   amount |-> XMul(newHoldings, currPrice)])
           ELSE IF sell THEN Append(trades,
                  [date |-> date, type |-> "SELL", price |-> currPrice,
                   quantity |-> holdings,
                   amount |-> XMul(holdings, currPrice)])
           ELSE trades
         currentStrategyValue ==
           IF newPosition = 1 THEN XMul(newHoldings, currPrice) ELSE newCash
         sReturn == StrategyReturn(currentStrategyValue, PrevCumulative(points))
     IN /\ currentPosition' = newPosition
        /\ holdings' = newHoldings
        /\ cash' = newCash
        /\ trades' = newTrades
        /\ cumBenchmark' = XMul(cumBenchmark, XAdd(One, bReturn))
        /\ cumStrategy' = currentStrategyValue
        /\ points' = Append(points,
             [date |-> date, benchmarkReturn |-> bReturn,
              strategyReturn |-> sReturn,
              cumulativeBenchmark |-> cumBenchmark',
              cumulativeStrategy |-> currentStrategyValue,
              signal |-> signal])
  /\ i' = i + 1
  /\ UNCHANGED <<formula, priceSeries, benchmark, metrics, pc>>
  /\ UNCHANGED <<ledgerVars, restVars>>

\* returns.reduce((a, b) => a + b, 0)
RECURSIVE SumFrom(_, _, _)
SumFrom(xs, k, acc) ==
  IF k > Len(xs) THEN acc ELSE SumFrom(xs, k + 1, XAdd(acc, xs[k]))
SumOf(xs) == SumFrom(xs, 1, Zero)

\* points.map(p => p.strategyReturn)
ReturnsOf(pts) == [t \in 1..Len(pts) |-> pts[t].strategyReturn]

\* returns.reduce(...) / points.length
AvgReturn(returns) == XDiv(SumOf(returns), Num(Len(returns)))

\* the floor substituted for a falsy standard deviation
StdDevFloor == Fin(1, 10000)

\* Math.sqrt(returns.map(x => Math.pow(x - avg, 2)).reduce(...) / n) || 0.0001
StdDev(returns) ==
  LET avg == AvgReturn(returns)
      sq == [t \in 1..Len(returns) |->
               XMul(XSub(returns[t], avg), XSub(returns[t], avg))]
  IN XOr(Sqrt(XDiv(SumOf(sq), Num(Len(returns)))), StdDevFloor)

\* (mutation: the test looks for 'US')
DaysInYearUS(b) == IF Includes(b, <<85, 83>>) THEN 365 ELSE 252

\* benchmark.includes('USD') ? 365 : 252
DaysInYear(b) == IF Includes(b, USD) THEN 365 ELSE 252

\* (Math.pow(cumStrategy / 100, daysInYear / points.length) - 1) * 100
AnnReturn(cum, days, n) ==
  XMul(XSub(Pow(XDiv(cum, Hundred), XDiv(Num(days), Num(n))), One), Hundred)

\* stdDev * Math.sqrt(daysInYear) * 100
AnnVol(stdDev, days) == XMul(XMul(stdDev, Sqrt(Num(days))), Hundred)

\* (avgReturn * daysInYear) / (stdDev * Math.sqrt(daysInYear))
SharpeRatio(avg, stdDev, days) ==
  XDiv(XMul(avg, Num(days)), XMul(stdDev, Sqrt(Num(days))))

\* (returns.filter(r => r > 0).length / points.length) * 100
WinRate(returns) ==
  XMul(XDiv(Num(Cardinality({t \in 1..Len(returns) : XGt(returns[t], Zero)})),
            Num(Len(returns))),
       Hundred)

\* (mutation: the running maximum drawdown starts at -Infinity like the peak)
MaxDrawdownInitLow == NInf

\* let maxDrawdown = 0; let peak = -Infinity
MaxDrawdownInit == Zero
PeakInit == NInf

\* if (currentVal > peak) peak = currentVal
NewPeak(peak, currentVal) == IF XGt(currentVal, peak) THEN currentVal ELSE peak

\* the drawdown loop over the points from index k on
RECURSIVE DrawdownFrom(_, _, _, _)
DrawdownFrom(pts, k, maxDrawdown, peak) ==
  IF k > Len(pts) THEN maxDrawdown
  ELSE LET currentVal == pts[k].cumulativeStrategy
           pk == NewPeak(peak, currentVal)
           dd == XDiv(XSub(pk, currentVal), pk)
       IN DrawdownFrom(pts, k + 1,
                       (IF XGt(dd, maxDrawdown) THEN dd ELSE maxDrawdown), pk)
MaxDrawdown(pts) == DrawdownFrom(pts, 1, MaxDrawdownInit, PeakInit)

\* the metrics object built after the loop
MetricsOf(pts, cum, b) ==
  LET returns == ReturnsOf(pts)
      avgReturn == AvgReturn(returns)
      stdDev == StdDev(returns)
      daysInYear == DaysInYear(b)
  IN [sharpeRatio |-> SharpeRatio(avgReturn, stdDev, daysInYear),
      annualizedReturn |-> AnnReturn(cum, daysInYear, Len(pts)),
      maxDrawdown |-> XMul(MaxDrawdown(pts), Hundred),
      volatility |-> AnnVol(stdDev, daysInYear),
      winRate |-> WinRate(returns),
      benchmarkName |-> b,
      daysInYear |-> daysInYear]

\* the code after the loop: metrics and return { data: points, metrics, trades }
RealReturn ==
  /\ pc = "loop"
  /\ ~LoopCond(i, priceSeries)
  /\ metrics' = MetricsOf(points, cumStrategy, benchmark)
  /\ pc' = "done"
  /\ UNCHANGED <<formula, priceSeries, benchmark, points, trades, cumStrategy,
                 cumBenchmark, currentPosition, cash, holdings, i>>
  /\ UNCHANGED <<ledgerVars, restVars>>

\* a price series of consecutive days starting on day start
SeriesOf(start, closes) ==
  [t \in 1..Len(closes) |-> [date |-> start + t - 1, close |-> closes[t]]]

CloseSeqs(maxLen) == UNION {[1..n -> 0..MaxClose] : n \in 0..maxLen}

LedgerIdle ==
  /\ data = <<>>
  /\ priceMap = <<>>
  /\ ledger = <<>>
  /\ position = 0
  /\ ltCash = Hundred
  /\ ltHoldings = Zero
  /\ idx = 1
  /\ ltpc = "idle"

RealLocals ==
  /\ points = <<>>
  /\ trades = <<>>
  /\ cumStrategy = Hundred
  /\ cumBenchmark = Hundred
  /\ currentPosition = 0
  /\ cash = Hundred
  /\ holdings = Zero
  /\ i = 1
  /\ metrics = NoMetrics

\* a call runRealBacktest(formula, priceSeries, benchmark), at the loop head
Init ==
  /\ formula \in Formulas
  /\ benchmark \in BenchmarkType
  /\ \E start \in FirstDay..(FirstDay + MaxShift), closes \in CloseSeqs(MaxLen) :
       priceSeries = SeriesOf(start, closes)
  /\ RealLocals
  /\ pc = "loop"
  /\ LedgerIdle
  /\ TwiceIdle /\ ClientIdle /\ ServerIdle /\ GeminiIdle

Next == RealStep \/ RealReturn

Spec == Init /\ [][Next]_vars

\* ------------------------------------------------------ buildLongOnlyTrades
\* the first loop: priceMap keeps, per date, the first close that is a number
\* greater than 0
RECURSIVE PriceMapFrom(_, _, _)
PriceMapFrom(ps, k, m) ==
  IF k > Len(ps) THEN m
  ELSE LET p == ps[k]
       IN IF p.date \notin DOMAIN m /\ p.close # NoClose /\ p.close > 0
          THEN PriceMapFrom(ps, k + 1, m @@ (p.date :> p.close))
          ELSE PriceMapFrom(ps, k + 1, m)

BuildPriceMap ==
  /\ ltpc = "start"
  /\ priceMap' = PriceMapFrom(priceSeries, 1, <<>>)
  /\ ltpc' = "replay"
  /\ UNCHANGED <<data, ledger, position, ltCash, ltHoldings, idx>>
  /\ UNCHANGED <<realVars, restVars>>

\* priceMap.get(date) is usable: if (!price || price <= 0) continue
HasPrice(m, date) == date \in DOMAIN m /\ m[date] # 0 /\ ~(m[date] <= 0)

\* (mutation: a BUY opens a position whatever the current position)
OpensPositionAlways(signal, pos) == signal = "BUY"

\* (mutation: a SELL closes a position whatever the current position)
ClosesPositionAlways(signal, pos) == signal = "SELL"

\* the guards of the two trade branches
OpensPosition(signal, pos) == signal = "BUY" /\ pos = 0
ClosesPosition(signal, pos) == signal = "SELL" /\ pos = 1

\* one iteration of the replay loop, for data[idx]
ReplayPoint ==
  /\ ltpc = "replay"
  /\ idx <= Len(data)
  /\ LET point == data[idx]
         signal == point.signal
     IN IF signal = "NONE" \/ ~HasPrice(priceMap, point.date)
        THEN UNCHANGED <<ledger, position, ltCash, ltHoldings>>
        ELSE LET price == Num(priceMap[point.date])
             IN IF OpensPosition(signal, position)
                THEN LET quantity == XDiv(ltCash, price)
                         amount == XMul(quantity, price)
                     IN /\ ledger' = Append(ledger,
                             [date |-> point.date, type |-> "BUY",
                              price |-> price, quantity |-> quantity,
                              amount |-> amount])
                        /\ ltHoldings' = quantity
                        /\ ltCash' = Zero
                        /\ position' = 1
                ELSE IF ClosesPosition(signal, position)
                THEN LET amount == XMul(ltHoldings, price)
                     IN /\ ledger' = Append(ledger,
                             [date |-> point.date, type |-> "SELL",
                              price |-> price, quantity |-> ltHoldings,
                              amount |-> amount])
                        /\ ltCash' = amount
                        /\ ltHoldings' = Zero
                        /\ position' = 0
                ELSE UNCHANGED <<ledger, position, ltCash, ltHoldings>>
  /\ idx' = idx + 1
  /\ UNCHANGED <<data, priceMap, ltpc>>
  /\ UNCHANGED <<realVars, restVars>>

\* (mutation: the finalization does not look at the position)
SynthesizesAlways(pos, d, m, h) ==
  /\ Len(d) > 0
  /\ HasPrice(m, Last(d).date)

\* the synthetic SELL is appended: position === 1 && data.length > 0, and the
\* last point has a usable price, and holdings > 0
Synthesizes(pos, d, m, h) ==
  /\ pos = 1
  /\ Len(d) > 0
  /\ HasPrice(m, Last(d).date)
  /\ XGt(h, Zero)

\* the code after the replay loop, and return trades
LedgerReturn ==
  /\ ltpc = "replay"
  /\ idx > Len(data)
  /\ ledger' =
       IF Synthesizes(position, data, priceMap, ltHoldings)
       THEN LET lastPoint == Last(data)
                price == Num(priceMap[lastPoint.date])
            IN Append(ledger,
                 [date |-> lastPoint.date, type |-> "SELL", price |-> price,
                  quantity |-> ltHoldings, amount |-> XMul(ltHoldings, price)])
       ELSE ledger
  /\ ltpc' = "done"
  /\ UNCHANGED <<data, priceMap, position, ltCash, ltHoldings, idx>>
  /\ UNCHANGED <<realVars, restVars>>

Signals == {"BUY", "SELL", "NONE"}

\* a signal stream on consecutive days, the first one the day after FirstDay
SignalStreams ==
  UNION {{[t \in 1..n |-> [date |-> FirstDay + t, signal |-> sig[t]]] :
            sig \in [1..n -> Signals]} : n \in 0..MaxData}

\* the points of f, a close per day of a set of days, in ascending date order
RECURSIVE SeriesFrom(_, _, _)
SeriesFrom(f, day, last) ==
  IF day > last THEN <<>>
  ELSE IF day \notin DOMAIN f THEN SeriesFrom(f, day + 1, last)
  ELSE <<[date |-> day, close |-> f[day]]>> \o SeriesFrom(f, day + 1, last)

\* price series with unique ascending dates over some of the days of the
\* stream; a close is not a number, or 0..MaxClose
PriceSeriesSet ==
  UNION {{SeriesFrom(f, FirstDay + 1, FirstDay + MaxData) :
            f \in [days -> {NoClose} \cup 0..MaxClose]} :
           days \in SUBSET ((FirstDay + 1)..(FirstDay + MaxData))}

RealIdle ==
  /\ formula = <<>>
  /\ benchmark = <<>>
  /\ RealLocals
  /\ pc = "idle"

\* a call buildLongOnlyTrades(data, priceSeries), before its first loop
InitLedger ==
  /\ data \in SignalStreams
  /\ priceSeries \in PriceSeriesSet
  /\ priceMap = <<>>
  /\ ledger = <<>>
  /\ position = 0
  /\ ltCash = Hundred
  /\ ltHoldings = Zero
  /\ idx = 1
  /\ ltpc = "start"
  /\ RealIdle
  /\ TwiceIdle /\ ClientIdle /\ ServerIdle /\ GeminiIdle

NextLedger == BuildPriceMap \/ ReplayPoint \/ LedgerReturn

SpecLedger == InitLedger /\ [][NextLedger]_vars

\* ------------------------------------------- the three-day replay scenario
\* the closes of the scenario, on three consecutive days from FirstDay
ScenarioCloses == <<100, 110, 99>>

\* a call buildLongOnlyTrades(data, priceSeries) on the scenario's prices
InitScenario ==
  /\ data \in SignalStreams
  /\ priceSeries = SeriesOf(FirstDay, ScenarioCloses)
  /\ priceMap = <<>>
  /\ ledger = <<>>
  /\ position = 0
  /\ ltCash = Hundred
  /\ ltHoldings = Zero
  /\ idx = 1
  /\ ltpc = "start"
  /\ RealIdle
  /\ TwiceIdle /\ ClientIdle /\ ServerIdle /\ GeminiIdle

SpecScenario == InitScenario /\ [][NextLedger]_vars

\* ------------------------------------------- two calls on the same inputs
\* what a call of runRealBacktest followed by buildLongOnlyTrades returns
OutputOf == [points |-> points, trades |-> trades, metrics |-> metrics,
             ledger |-> ledger]

\* the date and signal of the points, as buildLongOnlyTrades reads them
DataOf(pts) ==
  [t \in 1..Len(pts) |-> [date |-> pts[t].date, signal |-> pts[t].signal]]

\* buildLongOnlyTrades(data, priceSeries) is called on the returned data
CallLedger ==
  /\ pc = "done"
  /\ ltpc = "idle"
  /\ data' = DataOf(points)
  /\ priceMap' = <<>>
  /\ ledger' = <<>>
  /\ position' = 0
  /\ ltCash' = Hundred
  /\ ltHoldings' = Zero
  /\ idx' = 1
  /\ ltpc' = "start"
  /\ UNCHANGED <<realVars, restVars>>

\* the first pair of calls has returned: the same calls are made again on
\* the same formula, priceSeries and benchmark, with fresh locals
RunAgain ==
  /\ run = 1
  /\ pc = "done"
  /\ ltpc = "done"
  /\ first' = <<OutputOf>>
  /\ run' = 2
  /\ points' = <<>>
  /\ trades' = <<>>
  /\ cumStrategy' = Hundred
  /\ cumBenchmark' = Hundred
  /\ currentPosition' = 0
  /\ cash' = Hundred
  /\ holdings' = Zero
  /\ i' = 1
  /\ metrics' = NoMetrics
  /\ pc' = "loop"
  /\ data' = <<>>
  /\ priceMap' = <<>>
  /\ ledger' = <<>>
  /\ position' = 0
  /\ ltCash' = Hundred
  /\ ltHoldings' = Zero
  /\ idx' = 1
  /\ ltpc' = "idle"
  /\ UNCHANGED <<formula, priceSeries, benchmark, serverVars, geminiVars,
                 clientVars>>

InitTwice ==
  /\ formula \in Formulas
  /\ benchmark \in {BTC_USD, SP_500}
  /\ \E closes \in CloseSeqs(MaxTwice) : priceSeries = SeriesOf(FirstDay, closes)
  /\ RealLocals
  /\ pc = "loop"
  /\ LedgerIdle
  /\ TwiceIdle /\ ClientIdle /\ ServerIdle /\ GeminiIdle

NextTwice ==
  \/ RealStep
  \/ RealReturn
  \/ CallLedger
  \/ BuildPriceMap
  \/ ReplayPoint
  \/ LedgerReturn
  \/ RunAgain

SpecTwice == InitTwice /\ [][NextTwice]_vars

\* ------------------------------------- getMarketData, fetchYahooFinanceData
\* "^GSPC", "000300.SS"
GSPC == <<94, 71, 83, 80, 67>>
SS_000300 == <<48, 48, 48, 51, 48, 48, 46, 83, 83>>

\* the object literal tickerMap: its own keys and their values
tickerMap ==
  [k \in {BTC_USD, ETH_USD, SP_500, CSI_300} |->
     IF k = SP_500 THEN GSPC ELSE IF k = CSI_300 THEN SS_000300 ELSE k]

\* "constructor", "toString": names every object literal inherits from
\* Object.prototype
ObjectPrototypeKeys ==
  {<<99, 111, 110, 115, 116, 114, 117, 99, 116, 111, 114>>,
   <<116, 111, 83, 116, 114, 105, 110, 103>>}

\* obj[key] of an object literal: the own property, else the inherited one,
\* else undefined
Get(obj, key) ==
  IF key \in DOMAIN obj THEN [kind |-> "string", value |-> obj[key]]
  ELSE IF key \in ObjectPrototypeKeys THEN [kind |-> "function", value |-> key]
  ELSE [kind |-> "undefined", value |-> <<>>]

\* if (ticker)
TruthyValue(v) ==
  \/ v.kind = "function"
  \/ v.kind = "string" /\ v.value # <<>>

\* "DOGE", a string that is neither a key of tickerMap nor a BenchmarkType
DOGE == <<68, 79, 71, 69>>

\* the benchmarks a request can carry (the route passes the query string on)
Symbols == BenchmarkType \cup ObjectPrototypeKeys \cup {DOGE}

\* a date that is null / undefined
NoDate == 0

\* new Date(quote.date).toISOString().split('T')[0]: the day of an instant
ToISODate(ts) == ts \div DayParts

QuoteCloses == {NoClose, 0, MaxClose}

\* the quotes arrays of a chart answer: one quote per consecutive day after
\* FirstDay, each with or without a date and with or without a close
QuoteLists ==
  UNION {{[k \in 1..m |->
             [date |-> IF h[k] = 0 THEN NoDate
                       ELSE (FirstDay + k) * DayParts + h[k] - 1,
              close |-> c[k]]] :
            h \in [1..m -> 0..DayParts], c \in [1..m -> QuoteCloses]} :
           m \in 0..MaxReply}

\* what await yahooFinance.chart(...) does: throws, or resolves to nothing,
\* to an object without quotes, or to an object with quotes
ChartAnswers ==
  {[kind |-> k, quotes |-> <<>>] : k \in {"throws", "null", "noquotes"}}
    \cup {[kind |-> "result", quotes |-> q] : q \in QuoteLists}

\* quote.date && quote.close !== null && quote.close !== undefined
Usable(quote) == quote.date # NoDate /\ quote.close # NoClose

\* .filter(...).map(...)
PricePoints(quotes) ==
  LET kept == SelectSeq(quotes, Usable)
  IN [k \in 1..Len(kept) |->
        [date |-> ToISODate(kept[k].date), close |-> kept[k].close]]

\* !result || !result.quotes || result.quotes.length === 0
NoData(result) ==
  \/ result.kind \in {"null", "noquotes"}
  \/ Len(result.quotes) = 0

\* getMarketData up to the call of yahooFinance.chart
GetMarketData ==
  /\ rbpc = "getMarketData"
  /\ LET ticker == Get(tickerMap, rbBenchmark)
     IN IF TruthyValue(ticker)
        THEN /\ providerCalls' = providerCalls + 1
             /\ rbpc' = "chart"
             /\ error' = error
        ELSE /\ error' = <<"Unsupported benchmark">>
             /\ rbpc' = "thrown"
             /\ providerCalls' = providerCalls
  /\ UNCHANGED <<op, rbBenchmark, pythonCode, chart, priceData, pythonScript,
                 reply, payload>>
  /\ UNCHANGED <<realVars, ledgerVars, twiceVars, clientVars, geminiVars>>

\* the provider answers
ChartAnswer ==
  /\ rbpc = "chart"
  /\ \E a \in ChartAnswers : chart' = <<a>>
  /\ rbpc' = "filter"
  /\ UNCHANGED <<op, rbBenchmark, pythonCode, priceData, pythonScript, reply,
                 payload, error, providerCalls>>
  /\ UNCHANGED <<realVars, ledgerVars, twiceVars, clientVars, geminiVars>>

\* fetchYahooFinanceData after the await, and the return of getMarketData to
\* its caller (the route, or runBacktest before its try block)
FetchReturn ==
  /\ rbpc = "filter"
  /\ LET result == chart[1]
     IN IF result.kind = "throws"
        THEN /\ error' = <<"Yahoo Finance fetch failed">>
             /\ rbpc' = "thrown"
             /\ priceData' = priceData
        ELSE IF NoData(result)
        THEN /\ error' = <<"No data returned">>
             /\ rbpc' = "thrown"
             /\ priceData' = priceData
        ELSE /\ priceData' = PricePoints(result.quotes)
             /\ rbpc' = IF op = "getMarketData" THEN "returned" ELSE "generate"
             /\ error' = error
  /\ chart' = <<>>
  /\ UNCHANGED <<op, rbBenchmark, pythonCode, pythonScript, reply, payload,
                 providerCalls>>
  /\ UNCHANGED <<realVars, ledgerVars, twiceVars, clientVars, geminiVars>>

\* a request GET /api/market-data?benchmark=...
InitMarketData ==
  /\ op = "getMarketData"
  /\ rbBenchmark \in Symbols
  /\ pythonCode = ""
  /\ ServerLocals
  /\ rbpc = "getMarketData"
  /\ priceSeries = <<>>
  /\ RealIdle
  /\ LedgerIdle
  /\ TwiceIdle /\ ClientIdle /\ GeminiIdle

NextMarketData == GetMarketData \/ ChartAnswer \/ FetchReturn

SpecMarketData == InitMarketData /\ [][NextMarketData]_vars

\* ------------------------------------------------------- withGeminiClient
\* the errors a request can be rejected with: status and code, 0 when absent
GeminiErrors ==
  {[status |-> 429, code |-> 0], [status |-> 0, code |-> 429],
   [status |-> 500, code |-> 0], [status |-> 0, code |-> 0]}

\* e && (e.status || e.code)
StatusCode(e) == IF e.status # 0 THEN e.status ELSE e.code

\* statusCode === 429
RateLimited(e) == StatusCode(e) = 429

\* response.text: nothing, text that is no JSON, JSON
Texts == {"", "text", "json"}

\* (mutation: the loop allows one attempt more than there are keys)
KeysLeftOneMore(a, n) == a <= n

\* while (attempts < GEMINI_KEYS.length)
KeysLeft(a, n) == a < n

\* rotateGeminiKey
RotateGeminiKey(k, n) == (k + 1) % n

\* one turn of the loop: the request is issued with the current key and
\* answered; a 429 rotates the key and goes round again, any other error is
\* rethrown, a response is returned
GeminiAttempt ==
  /\ gpc = "loop"
  /\ KeysLeft(attempts, numKeys)
  /\ requests' = requests + 1
  /\ \/ /\ \E t \in Texts : text' = <<t>>
        /\ gpc' = "resolved"
        /\ UNCHANGED <<geminiKeyIndex, attempts, lastError, failures, thrown>>
     \/ \E e \in GeminiErrors :
          /\ failures' = Append(failures, e)
          /\ IF RateLimited(e)
             THEN /\ lastError' = <<e>>
                  /\ geminiKeyIndex' = RotateGeminiKey(geminiKeyIndex, numKeys)
                  /\ attempts' = attempts + 1
                  /\ UNCHANGED <<thrown, gpc>>
             ELSE /\ thrown' = <<e>>
                  /\ gpc' = "rejected"
                  /\ UNCHANGED <<lastError, geminiKeyIndex, attempts>>
          /\ text' = text
  /\ UNCHANGED <<numKeys, calls>>
  /\ UNCHANGED <<realVars, ledgerVars, twiceVars, clientVars, serverVars>>

\* the loop is left with every key tried: the last 429 is thrown
GeminiExhausted ==
  /\ gpc = "loop"
  /\ ~KeysLeft(attempts, numKeys)
  /\ thrown' = IF lastError # <<>> THEN lastError
               ELSE <<[status |-> 0, code |-> 0]>>
  /\ gpc' = "rejected"
  /\ UNCHANGED <<numKeys, geminiKeyIndex, attempts, lastError, requests,
                 failures, text, calls>>
  /\ UNCHANGED <<realVars, ledgerVars, twiceVars, clientVars, serverVars>>

\* the functions that call withGeminiClient and parse the text as JSON
ParsingOps == {"generateAlphaFactor", "generateBulkAlphaFactors"}

\* what the caller of withGeminiClient throws, <<>> when it returns
GenerateError(o) ==
  IF gpc = "rejected"
  THEN IF RateLimited(thrown[1]) THEN <<"rate limited">>
       ELSE <<"generation failed">>
  ELSE IF text[1] = "" THEN <<"Empty response">>
  ELSE IF o \in ParsingOps /\ text[1] # "json" THEN <<"SyntaxError">>
  ELSE <<>>

\* a generation function is entered: withGeminiClient starts with fresh locals
EnterGemini ==
  /\ attempts' = 0
  /\ lastError' = <<>>
  /\ requests' = 0
  /\ failures' = <<>>
  /\ text' = <<>>
  /\ thrown' = <<>>
  /\ calls' = calls + 1
  /\ gpc' = "loop"
  /\ UNCHANGED <<numKeys, geminiKeyIndex>>

\* withGeminiClient has returned or thrown: its locals are gone
LeaveGemini ==
  /\ attempts' = 0
  /\ lastError' = <<>>
  /\ requests' = 0
  /\ failures' = <<>>
  /\ text' = <<>>
  /\ thrown' = <<>>
  /\ gpc' = "idle"
  /\ UNCHANGED <<numKeys, geminiKeyIndex, calls>>

\* a request POST /api/generate-factor, /api/generate-bulk or a code
\* generation arrives at the server
GenerateCall ==
  /\ rbpc \in {"idle", "returned", "thrown"}
  /\ gpc = "idle"
  /\ calls < MaxCalls
  /\ op' \in ParsingOps \cup {"generateBacktestPythonCode"}
  /\ error' = <<>>
  /\ rbpc' = "generating"
  /\ EnterGemini
  /\ UNCHANGED <<rbBenchmark, pythonCode, chart, priceData, pythonScript,
                 reply, payload, providerCalls>>
  /\ UNCHANGED <<realVars, ledgerVars, twiceVars, clientVars>>

\* the rest of the generation function after await withGeminiClient(...);
\* in runBacktest its result is pythonScript and its error is rethrown by
\* the outer catch
GenerateReturn ==
  /\ rbpc = "generating"
  /\ gpc \in {"resolved", "rejected"}
  /\ LET o == IF op = "runBacktest" THEN "generateBacktestPythonCode" ELSE op
         e == GenerateError(o)
     IN IF op = "runBacktest"
        THEN IF e = <<>>
             THEN /\ pythonScript' = "generated"
                  /\ rbpc' = "execute"
                  /\ error' = error
             ELSE /\ error' = <<"Failed to run backtest">> \o e
                  /\ rbpc' = "thrown"
                  /\ pythonScript' = pythonScript
        ELSE /\ error' = e
             /\ rbpc' = IF e = <<>> THEN "returned" ELSE "thrown"
             /\ pythonScript' = pythonScript
  /\ LeaveGemini
  /\ UNCHANGED <<op, rbBenchmark, pythonCode, chart, priceData, reply,
                 payload, providerCalls>>
  /\ UNCHANGED <<realVars, ledgerVars, twiceVars, clientVars>>

\* the server after module load, GEMINI_KEYS holding 1..MaxKeys keys
InitGemini ==
  /\ numKeys \in 1..MaxKeys
  /\ geminiKeyIndex = 0
  /\ GeminiLocals
  /\ calls = 0
  /\ gpc = "idle"
  /\ ServerIdle
  /\ priceSeries = <<>>
  /\ RealIdle
  /\ LedgerIdle
  /\ TwiceIdle /\ ClientIdle

NextGemini ==
  \/ GenerateCall
  \/ GeminiAttempt
  \/ GeminiExhausted
  \/ GenerateReturn

SpecGemini == InitGemini /\ [][NextGemini]_vars

\* ------------------------------------------------------------ runBacktest
\* the state of runRealBacktest other than priceSeries
realRest == <<formula, benchmark, points, trades, cumStrategy, cumBenchmark,
              currentPosition, cash, holdings, i, metrics, pc>>

\* pythonCode || await generateBacktestPythonCode(formula)
Generate ==
  /\ rbpc = "generate"
  /\ IF pythonCode # ""
     THEN /\ pythonScript' = pythonCode
          /\ rbpc' = "execute"
          /\ UNCHANGED geminiVars
     ELSE /\ pythonScript' = pythonScript
          /\ rbpc' = "generating"
          /\ EnterGemini
  /\ UNCHANGED <<op, rbBenchmark, pythonCode, chart, priceData, reply,
                 payload, error, providerCalls>>
  /\ UNCHANGED <<realVars, ledgerVars, twiceVars, clientVars>>

\* the signal streams a reply can carry as result.data
ReplyStreams ==
  UNION {{[t \in 1..n |-> [date |-> FirstDay + t, signal |-> sig[t]]] :
            sig \in [1..n -> Signals]} : n \in 0..MaxReply}

\* a trade list reported by the execution service
ServiceTrades ==
  <<[date |-> FirstDay + 1, type |-> "BUY", price |-> One,
     quantity |-> Hundred, amount |-> Hundred]>>

\* result.result: an absent field is <<>>, a present one <<value>>
ServiceResults ==
  {[data |-> d, metrics |-> m, trades |-> t] :
     d \in {<<>>} \cup {<<st>> : st \in ReplyStreams},
     m \in BOOLEAN,
     t \in {<<>>, <<(<<>>)>>, <<ServiceTrades>>}}

\* what await axios.post(...) does: rejects with an axios error, or resolves
\* with no body, with status 'error', or with another status and with or
\* without a result
ServiceReplies ==
  {[kind |-> k, result |-> <<>>] : k \in {"http", "nobody", "error"}}
    \cup {[kind |-> "success", result |-> r] :
            r \in {<<>>} \cup {<<x>> : x \in ServiceResults}}

\* { ...result.result, pythonCode: pythonScript }
PayloadOf(r, script) ==
  IF r.result = <<>>
  THEN [data |-> <<>>, metrics |-> FALSE, trades |-> <<>>,
        pythonCode |-> script]
  ELSE [data |-> r.result[1].data, metrics |-> r.result[1].metrics,
        trades |-> r.result[1].trades, pythonCode |-> script]

\* the errors of the inner try block, as the inner and outer catch rethrow them
ExecuteError(r) ==
  IF r.kind = "http"
  THEN <<"Failed to run backtest", "Python Service HTTP Error">>
  ELSE IF r.kind = "nobody"
  THEN <<"Failed to run backtest",
         "Failed to execute backtest on python service">>
  ELSE IF r.kind = "error"
  THEN <<"Failed to run backtest",
         "Failed to execute backtest on python service",
         "Python Service Error">>
  ELSE <<>>

\* Array.isArray(payload?.data) && payload.data.length > 0
HasData(p) == p.data # <<>> /\ Len(p.data[1]) > 0

\* the generated code is posted and the reply handled, up to the return or
\* the call of buildLongOnlyTrades(payload.data, priceData)
Execute ==
  /\ rbpc = "execute"
  /\ \E r \in ServiceReplies :
       /\ reply' = <<r>>
       /\ IF ExecuteError(r) # <<>>
          THEN /\ error' = ExecuteError(r)
               /\ rbpc' = "thrown"
               /\ UNCHANGED <<payload, priceSeries, ledgerVars>>
          ELSE LET p == PayloadOf(r, pythonScript)
               IN /\ payload' = <<p>>
                  /\ error' = error
                  /\ IF HasData(p)
                     THEN /\ data' = p.data[1]
                          /\ priceSeries' = priceData
                          /\ priceMap' = <<>>
                          /\ ledger' = <<>>
                          /\ position' = 0
                          /\ ltCash' = Hundred
                          /\ ltHoldings' = Zero
                          /\ idx' = 1
                          /\ ltpc' = "start"
                          /\ rbpc' = "ledger"
                     ELSE /\ rbpc' = "returned"
                          /\ UNCHANGED <<priceSeries, ledgerVars>>
  /\ UNCHANGED <<op, rbBenchmark, pythonCode, chart, priceData, pythonScript,
                 providerCalls>>
  /\ UNCHANGED <<realRest, twiceVars, clientVars, geminiVars>>

\* (mutation: the rebuilt trades replace those of the reply even when empty)
KeepsSyntheticAlways(syntheticTrades) == TRUE

\* if (syntheticTrades.length > 0)
KeepsSynthetic(syntheticTrades) == Len(syntheticTrades) > 0

\* buildLongOnlyTrades has returned: its trades replace those of the reply
\* when there are any, and the payload is returned
ReturnPayload ==
  /\ rbpc = "ledger"
  /\ ltpc = "done"
  /\ payload' = IF KeepsSynthetic(ledger)
                THEN <<[payload[1] EXCEPT !.trades = <<ledger>>]>>
                ELSE payload
  /\ rbpc' = "returned"
  /\ UNCHANGED <<op, rbBenchmark, pythonCode, chart, priceData, pythonScript,
                 reply, error, providerCalls>>
  /\ UNCHANGED <<realVars, ledgerVars, twiceVars, clientVars, geminiVars>>

\* a call runBacktest(formula, benchmark, ..., pythonCode) on a server with
\* 1..MaxKeys API keys
InitBacktest ==
  /\ op = "runBacktest"
  /\ rbBenchmark \in {BTC_USD, CUSTOM_A}
  /\ pythonCode \in {"", "code"}
  /\ ServerLocals
  /\ rbpc = "getMarketData"
  /\ numKeys \in 1..MaxKeys
  /\ geminiKeyIndex = 0
  /\ GeminiLocals
  /\ calls = 0
  /\ gpc = "idle"
  /\ priceSeries = <<>>
  /\ RealIdle
  /\ LedgerIdle
  /\ TwiceIdle /\ ClientIdle

NextBacktest ==
  \/ GetMarketData
  \/ ChartAnswer
  \/ FetchReturn
  \/ Generate
  \/ GeminiAttempt
  \/ GeminiExhausted
  \/ GenerateReturn
  \/ Execute
  \/ BuildPriceMap
  \/ ReplayPoint
  \/ LedgerReturn
  \/ ReturnPayload

SpecBacktest == InitBacktest /\ [][NextBacktest]_vars

\* ------------------------------------------------------------ GitHub login
\* Query parameters are strings, "" standing for a parameter that is absent
\* (searchParams.get gives null, which the code tests like "").  The items of
\* sessionStorage and localStorage are oauthState ("" absent) and
\* userSession (<<>> absent).
States == {"s1", "s2"}

Urls == [flag : {"", "1"}, code : {"", "c"}, state : {""} \cup States]

Emails == {"", "a@x", "A@x", "b@x"}

\* VITE_ALLOWED_EMAILS after split(",")
RawAllowedLists == {<<"">>, <<"A@x">>, <<"", "a@x">>}

ToLowerCase(s) == IF s = "A@x" THEN "a@x" ELSE s

\* .map(v => v.trim().toLowerCase()).filter(Boolean)
AllowedEmails(raw) ==
  SelectSeq([k \in 1..Len(raw) |-> ToLowerCase(raw[k])], LAMBDA v : v # "")

AppFrame == UNCHANGED <<realVars, ledgerVars, twiceVars, serverVars,
                        geminiVars, appVars>>

\* startGithubLogin: throws without a client id, else saves a fresh state
\* and leaves for GitHub
StartGithubLogin ==
  /\ lpc \in {"page", "null", "thrown", "noClientId"}
  /\ IF clientId = ""
       THEN /\ lpc' = "noClientId"
            /\ UNCHANGED oauthState
       ELSE /\ \E state \in States : oauthState' = state
            /\ lpc' = "redirected"
  /\ UNCHANGED <<clientId, rawAllowed, userSession, url, storedState,
                 exchanges>>
  /\ AppFrame

\* the page is loaded with some URL: the redirect back from GitHub, or any
\* link opened in the tab
Navigate ==
  /\ lpc \in {"page", "redirected", "null", "thrown", "noClientId", "user"}
  /\ \E u \in Urls : url' = u
  /\ lpc' = "callback"
  /\ storedState' = ""
  /\ UNCHANGED <<clientId, rawAllowed, oauthState, userSession, exchanges>>
  /\ AppFrame

\* completeGithubLogin up to the await of the exchange request
CompleteGithubLogin ==
  /\ lpc = "callback"
  /\ IF url.flag # "1" \/ url.code = ""
       THEN /\ lpc' = "null"
            /\ UNCHANGED <<oauthState, storedState, exchanges>>
       ELSE /\ storedState' = oauthState
            /\ oauthState' = ""
            /\ IF oauthState # "" /\ url.state # "" /\ oauthState # url.state
                 THEN /\ lpc' = "thrown"
                      /\ UNCHANGED exchanges
                 ELSE /\ exchanges < MaxExchanges
                      /\ exchanges' = exchanges + 1
                      /\ lpc' = "exchange"
  /\ UNCHANGED <<clientId, rawAllowed, userSession, url>>
  /\ AppFrame

\* the exchange answers: not ok, or a user whose email the allow list admits
\* or not
ExchangeAnswer ==
  /\ lpc = "exchange"
  /\ \/ /\ lpc' = "thrown"
        /\ UNCHANGED userSession
     \/ \E email \in Emails :
          LET allowedEmails == AllowedEmails(rawAllowed)
          IN  IF /\ Len(allowedEmails) > 0
                 /\ \A k \in 1..Len(allowedEmails) :
                      allowedEmails[k] # ToLowerCase(email)
                THEN /\ lpc' = "thrown"
                     /\ UNCHANGED userSession
                ELSE /\ userSession' = <<[email |-> email]>>
                     /\ lpc' = "user"
  /\ UNCHANGED <<clientId, rawAllowed, oauthState, url, storedState,
                 exchanges>>
  /\ AppFrame

InitLogin ==
  /\ priceSeries = <<>>
  /\ RealIdle /\ LedgerIdle /\ TwiceIdle /\ ServerIdle /\ GeminiIdle
  /\ AppIdle
  /\ clientId \in {"", "id"}
  /\ rawAllowed \in RawAllowedLists
  /\ oauthState = ""
  /\ userSession = <<>>
  /\ url = [flag |-> "", code |-> "", state |-> ""]
  /\ storedState = ""
  /\ exchanges = 0
  /\ lpc = "page"

NextLogin ==
  \/ StartGithubLogin
  \/ Navigate
  \/ CompleteGithubLogin
  \/ ExchangeAnswer

SpecLogin == InitLogin /\ [][NextLogin]_vars


\* ---------------------------------------------------------------- App.tsx
\* One life of the page.  A user is the email of its session ("" is null), a
\* factor is [id, pythonCode], an option value is <<>> or <<v>>.  A React
\* handler runs to its end, then the component renders and the effects whose
\* dependencies changed run: Render is that tail of every handler.
SessionUser == "a@x"

Factor(id) == [id |-> id, pythonCode |-> ""]

\* what GET /db/factors answers; fetchFactorsFromCloud turns a failure into []
CloudFactorLists == {<<>>, <<Factor("f1")>>, <<Factor("f1"), Factor("f2")>>}

AppBenchmarks == {BTC_USD, SP_500}

PleaseLogin == "Please login to access this feature."

FailedToFetch == "Failed to fetch market data."

Ids(fs) == {fs[k].id : k \in 1..Len(fs)}

\* const activeFactor = factors.find(f => f.id === activeFactorId)
HasActiveFactor(fs, a) == a \in Ids(fs)

LoginRest == <<clientId, rawAllowed, oauthState, url, storedState, exchanges,
               lpc>>

ServerFrame == UNCHANGED <<realVars, ledgerVars, twiceVars, serverVars,
                           geminiVars>>

\* handleRunSimulation past its two guards, up to the await
StartSimulation(a, sd, reqs) ==
  /\ started < MaxSims
  /\ started' = started + 1
  /\ simRequests' = reqs \cup {[id |-> started + 1, factor |-> a,
                                benchmark |-> selectedBenchmark]}
  /\ lastStarted' = <<[factor |-> a, benchmark |-> selectedBenchmark]>>
  /\ isSimulating' = TRUE
  /\ appError' = ""
  /\ simulationData' = sd

\* the render after a handler left user u, factors fs, active factor a,
\* simulationData sd, error err, isSimulating sim, alpha_factors lf and the
\* requests reqs in flight: the effect on [factors, user], then the effect on
\* [activeFactorId]
Render(u, fs, a, sd, err, sim, lf, reqs) ==
  /\ user' = u
  /\ factors' = fs
  /\ activeFactorId' = a
  /\ localFactors' = IF u = "" /\ (fs # factors \/ u # user) THEN <<fs>> ELSE lf
  /\ IF a # activeFactorId /\ HasActiveFactor(fs, a) /\ u # ""
       THEN StartSimulation(a, sd, reqs)
       ELSE /\ simulationData' =
                 IF a # activeFactorId /\ ~HasActiveFactor(fs, a)
                   THEN <<>> ELSE sd
            /\ appError' =
                 IF a # activeFactorId /\ HasActiveFactor(fs, a)
                   THEN PleaseLogin ELSE err
            /\ isSimulating' = sim
            /\ simRequests' = reqs
            /\ UNCHANGED <<started, lastStarted>>

\* the mount: the effect on [factors, user] writes the empty list, then
\* handleAuth takes the user completeGithubLogin returns, else the stored
\* session, else the stored factors
HandleAuth ==
  /\ apc = "mount"
  /\ \E outcome \in {"user", "null", "thrown"} :
       LET session == IF outcome = "user" THEN <<[email |-> SessionUser]>>
                      ELSE userSession
           err == IF outcome = "thrown" THEN "thrown" ELSE ""
       IN  /\ userSession' = session
           /\ IF session # <<>>
                THEN /\ isSyncing' = TRUE
                     /\ loadRequests' = {[userId |-> session[1].email]}
                     /\ Render(session[1].email, <<>>, "", <<>>, err, FALSE,
                               <<(<<>>)>>, {})
                ELSE /\ UNCHANGED <<isSyncing, loadRequests>>
                     /\ Render("", <<>>, "", <<>>, err, FALSE, <<(<<>>)>>, {})
  /\ apc' = "ready"
  /\ UNCHANGED <<selectedBenchmark, loggedOut, LoginRest>>
  /\ ServerFrame

\* loadUserData after its await
LoadUserDataReturn ==
  /\ apc = "ready"
  /\ \E r \in loadRequests, cloudFactors \in CloudFactorLists :
       /\ loadRequests' = loadRequests \ {r}
       /\ isSyncing' = FALSE
       /\ IF Len(cloudFactors) > 0
            THEN Render(user, cloudFactors, cloudFactors[1].id, simulationData,
                        appError, isSimulating, localFactors, simRequests)
            ELSE Render(user, factors, activeFactorId, simulationData,
                        appError, isSimulating, localFactors, simRequests)
  /\ UNCHANGED <<selectedBenchmark, loggedOut, apc, userSession, LoginRest>>
  /\ ServerFrame

HandleLogout ==
  /\ apc = "ready"
  /\ user # ""
  /\ userSession' = <<>>
  /\ Render("", <<>>, "", simulationData, appError, isSimulating, <<>>,
            simRequests)
  /\ loggedOut' = TRUE
  /\ UNCHANGED <<selectedBenchmark, isSyncing, loadRequests, apc, LoginRest>>
  /\ ServerFrame

\* Sidebar: onSelectFactor = setActiveFactorId
SelectFactor ==
  /\ apc = "ready"
  /\ \E id \in Ids(factors) \ {activeFactorId} :
       Render(user, factors, id, simulationData, appError, isSimulating,
              localFactors, simRequests)
  /\ UNCHANGED <<selectedBenchmark, isSyncing, loadRequests, loggedOut, apc,
                 userSession, LoginRest>>
  /\ ServerFrame

\* the select of the benchmark
SelectBenchmark ==
  /\ apc = "ready"
  /\ \E b \in AppBenchmarks \ {selectedBenchmark} : selectedBenchmark' = b
  /\ UNCHANGED <<user, factors, activeFactorId, simulationData, isSimulating,
                 isSyncing, appError, simRequests, loadRequests, localFactors,
                 started, lastStarted, loggedOut, apc, userSession, LoginRest>>
  /\ ServerFrame

\* the Run button, disabled while isSimulating
RunSimulation ==
  /\ apc = "ready"
  /\ ~isSimulating
  /\ HasActiveFactor(factors, activeFactorId)
  /\ IF user = ""
       THEN /\ appError' = PleaseLogin
            /\ UNCHANGED <<simulationData, isSimulating, simRequests, started,
                           lastStarted>>
       ELSE StartSimulation(activeFactorId, simulationData, simRequests)
  /\ UNCHANGED <<user, factors, activeFactorId, selectedBenchmark, isSyncing,
                 loadRequests, localFactors, loggedOut, apc, userSession,
                 LoginRest>>
  /\ ServerFrame

\* handleRunSimulation after its await: the result, or the catch; finally
SimulationReturn ==
  /\ apc = "ready"
  /\ \E r \in simRequests :
       \/ \E code \in {"", "code"} :
            LET result == [factor |-> r.factor, benchmark |-> r.benchmark,
                           pythonCode |-> code]
                fs == IF code # ""
                        THEN [k \in 1..Len(factors) |->
                                IF factors[k].id = r.factor
                                  THEN [factors[k] EXCEPT !.pythonCode = code]
                                  ELSE factors[k]]
                        ELSE factors
            IN  Render(user, fs, activeFactorId, <<result>>, appError, FALSE,
                       localFactors, simRequests \ {r})
       \/ Render(user, factors, activeFactorId, simulationData, FailedToFetch,
                 FALSE, localFactors, simRequests \ {r})
  /\ UNCHANGED <<selectedBenchmark, isSyncing, loadRequests, loggedOut, apc,
                 userSession, LoginRest>>
  /\ ServerFrame

HandleDeleteFactor ==
  /\ apc = "ready"
  /\ \E id \in Ids(factors) :
       LET nextFactors == SelectSeq(factors, LAMBDA f : f.id # id)
           a == IF activeFactorId # id THEN activeFactorId
                ELSE IF Len(nextFactors) > 0 THEN nextFactors[1].id ELSE ""
       IN  Render(user, nextFactors, a, simulationData, appError,
                  isSimulating, localFactors, simRequests)
  /\ UNCHANGED <<selectedBenchmark, isSyncing, loadRequests, loggedOut, apc,
                 userSession, LoginRest>>
  /\ ServerFrame

\* the page is loaded again: the component state starts over, the answers of
\* the old page are dropped, the storages stay
Reload ==
  /\ apc = "ready"
  /\ user' = ""
  /\ factors' = <<>>
  /\ activeFactorId' = ""
  /\ selectedBenchmark' = BTC_USD
  /\ simulationData' = <<>>
  /\ isSimulating' = FALSE
  /\ isSyncing' = FALSE
  /\ appError' = ""
  /\ simRequests' = {}
  /\ loadRequests' = {}
  /\ started' = 0
  /\ lastStarted' = <<>>
  /\ loggedOut' = FALSE
  /\ apc' = "mount"
  /\ UNCHANGED <<localFactors, userSession, LoginRest>>
  /\ ServerFrame

InitApp ==
  /\ priceSeries = <<>>
  /\ RealIdle /\ LedgerIdle /\ TwiceIdle /\ ServerIdle /\ GeminiIdle
  /\ LoginIdle
  /\ user = ""
  /\ factors = <<>>
  /\ activeFactorId = ""
  /\ selectedBenchmark = BTC_USD
  /\ simulationData = <<>>
  /\ isSimulating = FALSE
  /\ isSyncing = FALSE
  /\ appError = ""
  /\ simRequests = {}
  /\ loadRequests = {}
  /\ localFactors = <<>>
  /\ started = 0
  /\ lastStarted = <<>>
  /\ loggedOut = FALSE
  /\ apc = "mount"

NextApp ==
  \/ HandleAuth
  \/ LoadUserDataReturn
  \/ HandleLogout
  \/ SelectFactor
  \/ SelectBenchmark
  \/ RunSimulation
  \/ SimulationReturn
  \/ HandleDeleteFactor
  \/ Reload

SpecApp == InitApp /\ [][NextApp]_vars

\* ------------------------------------------------------------------ claims
Alternates(ts) ==
  \A k \in 1..Len(ts) : ts[k].type = (IF k % 2 = 1 THEN "BUY" ELSE "SELL")

\* C1: the trades built by buildLongOnlyTrades strictly alternate BUY, SELL,
\* BUY, ... and the first trade, if any, is a BUY, whatever the signal stream
\* (at every point of the replay and in the returned ledger).
C1_TradesAlternate == Alternates(ledger)

\* a returned ledger of a stream SELL, BUY, BUY that traded
C1_Witness ==
  /\ ltpc = "done"
  /\ Len(data) = 3
  /\ data[1].signal = "SELL" /\ data[2].signal = "BUY" /\ data[3].signal = "BUY"
  /\ HasPrice(priceMap, data[1].date)
  /\ Len(ledger) = 2

\* C2: the ledger returned by buildLongOnlyTrades has an even number of trades.
C2_EvenLedger == ltpc = "done" => Len(ledger) % 2 = 0

\* the close of the price series on a date (the first point of that date)
CloseOn(ps, date) ==
  LET ks == {k \in 1..Len(ps) : ps[k].date = date}
  IN IF ks = {} THEN NoClose
     ELSE ps[CHOOSE k \in ks : \A j \in ks : k <= j].close

\* C3: when the replay ends with an open position, the returned ledger ends
\* with one synthetic SELL right after the last BUY, dated on the last data
\* point, priced at that day's close, with the last BUY's quantity.
C3_SyntheticSell ==
  (ltpc = "done" /\ position = 1) =>
    /\ Len(ledger) >= 2
    /\ ledger[Len(ledger) - 1].type = "BUY"
    /\ Last(ledger).type = "SELL"
    /\ Last(ledger).date = Last(data).date
    /\ Last(ledger).price = Num(CloseOn(priceSeries, Last(data).date))
    /\ Last(ledger).quantity = ledger[Len(ledger) - 1].quantity

\* C4: if runRealBacktest ends the series LONG, the last returned trade is a
\* SELL dated on the final day of the series.
C4_EndsLongClosed ==
  (pc = "done" /\ currentPosition = 1) =>
    /\ trades # <<>>
    /\ Last(trades).type = "SELL"
    /\ Last(trades).date = Last(priceSeries).date

\* C5 as stated: the number of returned points is len(priceSeries) - 1 for
\* all price series.
C5_PointCountStated == pc = "done" => Len(points) = Len(priceSeries) - 1

\* C5: the number of returned points is len(priceSeries) - 1 for every
\* non-empty price series, and 0 for the empty one.
C5_PointCount ==
  pc = "done" =>
    Len(points) = (IF Len(priceSeries) = 0 THEN 0 ELSE Len(priceSeries) - 1)

C5_Witness == pc = "done" /\ Len(priceSeries) >= 3 /\ Len(points) >= 2

\* the denominator of the strategy return of point t
PrevCumulativeAt(pts, t) ==
  IF t = 1 THEN Hundred ELSE pts[t - 1].cumulativeStrategy

\* C6: a daily return whose denominator (prior close for the benchmark, prior
\* cumulative strategy value for the strategy) is zero is 0.
C6_ZeroDenominator ==
  \A t \in 1..Len(points) :
    /\ priceSeries[t].close = 0 => points[t].benchmarkReturn = Zero
    /\ PrevCumulativeAt(points, t) = Zero => points[t].strategyReturn = Zero

\* C7: every numeric field of the result of runRealBacktest is finite.
C7_AllFinite ==
  pc = "done" =>
    /\ \A t \in 1..Len(points) :
         /\ IsFinite(points[t].benchmarkReturn)
         /\ IsFinite(points[t].strategyReturn)
         /\ IsFinite(points[t].cumulativeBenchmark)
         /\ IsFinite(points[t].cumulativeStrategy)
    /\ IsFinite(metrics.sharpeRatio)
    /\ IsFinite(metrics.annualizedReturn)
    /\ IsFinite(metrics.maxDrawdown)
    /\ IsFinite(metrics.volatility)
    /\ IsFinite(metrics.winRate)

\* a series of at least two days whose closes are all equal and positive
FlatSeries(ps) ==
  /\ Len(ps) >= 2
  /\ \A t \in 1..Len(ps) : ps[t].close = ps[1].close /\ ps[t].close > 0

\* C8: on a flat price series volatility is 0, sharpeRatio is finite and
\* maxDrawdown is 0.
C8_FlatSeries ==
  (pc = "done" /\ FlatSeries(priceSeries)) =>
    /\ metrics.volatility = Zero
    /\ IsFinite(metrics.sharpeRatio)
    /\ metrics.maxDrawdown = Zero

\* C9: winRate is the fraction of points with a strictly positive
\* strategyReturn, and lies in [0, 1].
C9_WinRateFraction ==
  pc = "done" =>
    /\ metrics.winRate =
         XDiv(Num(Cardinality({t \in 1..Len(points) :
                                 XGt(points[t].strategyReturn, Zero)})),
              Num(Len(points)))
    /\ XGe(metrics.winRate, Zero)
    /\ XLe(metrics.winRate, One)

NonDecreasing(pts) ==
  \A t \in 2..Len(pts) :
    XGe(pts[t].cumulativeStrategy, pts[t - 1].cumulativeStrategy)

\* C10: the returned maxDrawdown is >= 0, and it is 0 whenever
\* cumulativeStrategy is non-decreasing over the whole series.
C10_MaxDrawdown ==
  pc = "done" =>
    /\ XGe(metrics.maxDrawdown, Zero)
    /\ NonDecreasing(points) => metrics.maxDrawdown = Zero

\* a returned run whose equity curve never fell and ended above its base
C10_Witness ==
  /\ pc = "done"
  /\ Len(points) >= 2
  /\ NonDecreasing(points)
  /\ XGt(Last(points).cumulativeStrategy, Hundred)

\* the signals the loop of runRealBacktest attaches to the days of ps from
\* index k on, entered with position pos (the loop reads no close to decide)
RECURSIVE SignalTrace(_, _, _, _)
SignalTrace(f, ps, k, pos) ==
  IF ~LoopCond(k, ps) THEN <<>>
  ELSE LET score == SignalScore(f, At(ps, k).date)
           buy == IsBuy(pos, score)
           sell == ~buy /\ IsSell(pos, score)
       IN <<(IF buy THEN "BUY" ELSE IF sell THEN "SELL" ELSE "NONE")>>
          \o SignalTrace(f, ps, k + 1, (IF buy THEN 1 ELSE IF sell THEN 0 ELSE pos))

\* C11: for a fixed formula the signal of a calendar day is the same in any
\* two runs whose windows contain that day, whatever the first day of each
\* window (the second run is any window of the model, replayed by SignalTrace).
C11_WindowIndependent ==
  pc = "done" =>
    \A start2 \in FirstDay..(FirstDay + MaxShift), n2 \in 0..MaxLen :
      LET ps2 == SeriesOf(start2, [t \in 1..n2 |-> 1])
          sig2 == SignalTrace(formula, ps2, 1, 0)
      IN \A t \in 1..Len(points), u \in 1..Len(sig2) :
           points[t].date = At(ps2, u).date => points[t].signal = sig2[u]

\* the signals of the points, without the days that carry none
RECURSIVE SignalsOnly(_)
SignalsOnly(pts) ==
  IF pts = <<>> THEN <<>>
  ELSE IF pts[1].signal = "NONE" THEN SignalsOnly(Tail(pts))
  ELSE <<[type |-> pts[1].signal]>> \o SignalsOnly(Tail(pts))

\* the step of a day: the point it appends and the position before and after
DayStep(sig, before, after) ==
  /\ Len(points') = Len(points) + 1
  /\ Last(points').signal = sig
  /\ currentPosition = before
  /\ currentPosition' = after

\* C18: the position of runRealBacktest starts FLAT; a day emits BUY only
\* when it starts FLAT and ends LONG, SELL only when it starts LONG and ends
\* FLAT, no signal leaves the position alone, every step adds at most one
\* point, and the signals of the data alternate BUY, SELL, ... from BUY.
C18_PositionMachine ==
  /\ [](points = <<>> => currentPosition = 0)
  /\ [](currentPosition \in {0, 1})
  /\ [](Alternates(SignalsOnly(points)))
  /\ [][\/ (points' = points /\ currentPosition' = currentPosition)
        \/ DayStep("BUY", 0, 1)
        \/ DayStep("SELL", 1, 0)
        \/ DayStep("NONE", 0, 0)
        \/ DayStep("NONE", 1, 1)]_vars

\* a returned run that bought, sold and bought again
C18_Witness ==
  /\ pc = "done"
  /\ SignalsOnly(points) = <<[type |-> "BUY"], [type |-> "SELL"], [type |-> "BUY"]>>

\* the replay step of a point with a usable price and signal sig, taken in
\* position pos
ReplayOf(sig, pos) ==
  /\ ltpc = "replay"
  /\ idx <= Len(data)
  /\ idx' = idx + 1
  /\ data[idx].signal = sig
  /\ HasPrice(priceMap, data[idx].date)
  /\ position = pos

\* C19: in buildLongOnlyTrades a BUY received while long and a SELL received
\* while flat add no trade and leave position, cash and holdings unchanged.
C19_IgnoredSignals ==
  [][(ReplayOf("BUY", 1) \/ ReplayOf("SELL", 0)) =>
       UNCHANGED <<ledger, position, ltCash, ltHoldings>>]_vars

\* the replay has just ignored a second BUY
C19_Witness ==
  /\ ltpc = "replay"
  /\ idx = 3
  /\ data[1].signal = "BUY" /\ data[2].signal = "BUY"
  /\ HasPrice(priceMap, data[1].date) /\ HasPrice(priceMap, data[2].date)
  /\ Len(ledger) = 1 /\ position = 1

\* a well-formed trade: price > 0, quantity > 0, amount = price x quantity
WellFormed(tr) ==
  /\ XGt(tr.price, Zero)
  /\ XGt(tr.quantity, Zero)
  /\ tr.amount = XMul(tr.price, tr.quantity)

\* exactly one of cash and holdings is non-zero
OneSided(c, h) == (c = Zero) # (h = Zero)

\* C20 (runRealBacktest): every trade is well formed, a BUY takes all the
\* cash (quantity = cash / price, cash becomes 0), a SELL gives all the units
\* back (holdings become 0), and exactly one of cash and holdings is non-zero.
C20_AllInAllOut ==
  /\ [](\A k \in 1..Len(trades) : WellFormed(trades[k]))
  /\ [](OneSided(cash, holdings))
  /\ [][Len(trades') = Len(trades) + 1 =>
          IF Last(trades').type = "BUY"
          THEN /\ Last(trades').quantity = XDiv(cash, Last(trades').price)
               /\ cash' = Zero
          ELSE /\ Last(trades').quantity = holdings
               /\ cash' = XMul(holdings, Last(trades').price)
               /\ holdings' = Zero]_vars

\* BUY on the second day of the scenario, SELL on the third
ScenarioStream ==
  <<[date |-> FirstDay + 1, signal |-> "BUY"],
    [date |-> FirstDay + 2, signal |-> "SELL"]>>

\* C13: replaying closes [100, 110, 99] with a BUY on day 2 and a SELL on
\* day 3 gives exactly two trades, a BUY at 110 of 100/110 units and a SELL
\* at 99 of the same units for an amount of 90, final cash 90, and no
\* synthetic trade.
C13_Scenario ==
  (ltpc = "done" /\ data = ScenarioStream) =>
    /\ ledger =
         <<[date |-> FirstDay + 1, type |-> "BUY", price |-> Num(110),
            quantity |-> Fin(100, 110), amount |-> Hundred],
           [date |-> FirstDay + 2, type |-> "SELL", price |-> Num(99),
            quantity |-> Fin(100, 110), amount |-> Num(90)]>>
    /\ ltCash = Num(90)
    /\ ltHoldings = Zero

\* the scenario has been replayed to its end
C13_Witness ==
  /\ ltpc = "done"
  /\ data = ScenarioStream
  /\ priceSeries = SeriesOf(FirstDay, ScenarioCloses)
  /\ Len(ledger) = 2

C15_NoEmptySeries ==
  /\ [](rbpc \in {"returned", "generate"} => priceData # <<>>)
  /\ [][(rbpc = "filter" /\ rbpc' # "filter"
           /\ PricePoints(chart[1].quotes) = <<>>) => rbpc' = "thrown"]_vars

\* C16: for every benchmark that is not a key of the mapping table
\* (BenchmarkType value CUSTOM_A included) getMarketData fails with the
\* unsupported-benchmark error and calls the provider not once.
C16_UnsupportedBenchmark ==
  (rbBenchmark \notin DOMAIN tickerMap /\ rbpc # "getMarketData") =>
    /\ rbpc = "thrown"
    /\ error = <<"Unsupported benchmark">>
    /\ providerCalls = 0

\* C17 as stated: a generation call is one request and one answer; the
\* first failure of the external call is thrown and no request follows it.
C17_SingleRequest ==
  /\ requests <= 1
  /\ failures # <<>> => (gpc = "rejected" /\ thrown = <<failures[1]>>)

\* the error carries 429 as its status, or as its code when it has no status
Is429(e) == e.status = 429 \/ (e.status = 0 /\ e.code = 429)

\* C17 (amended): a generation call re-issues its request only after a
\* rate-limit failure (429) and then with the next API key, at most once per
\* configured key; any other failure is thrown at once, and when every key
\* was rate limited the last 429 is thrown.
C17_RetryOnRateLimit ==
  /\ requests <= numKeys
  /\ requests = Len(failures) + Len(text)
  /\ \A k \in 1..(Len(failures) - 1) : Is429(failures[k])
  /\ gpc = "loop" => (attempts = requests /\ text = <<>> /\ thrown = <<>>)
  /\ (failures # <<>> /\ ~Is429(Last(failures))) =>
       (gpc = "rejected" /\ thrown = <<Last(failures)>>)
  /\ thrown # <<>> => (gpc = "rejected" /\ thrown = <<Last(failures)>>
                        /\ (Is429(thrown[1]) => requests = numKeys))

\* a request was rate limited, re-issued with the next key and answered
C17_Witness ==
  /\ gpc = "resolved"
  /\ requests = 2
  /\ Is429(failures[1])
  /\ geminiKeyIndex = 1

\* a result with data, metrics and trades all present
Complete(p) == p.data # <<>> /\ p.metrics /\ p.trades # <<>>

\* C14: runBacktest returns a complete result (data, metrics and trades all
\* present) or throws one error; a failed fetch, generation or execution, or
\* a reply without a result, never yields a returned object.
C14_CompleteOrError ==
  /\ rbpc = "returned" => (error = <<>> /\ Complete(payload[1]))
  /\ rbpc = "thrown" => (error # <<>> /\ payload = <<>>)

\* a === b on numbers: NaN equals nothing
NumEq(a, b) == ~IsNaN(a) /\ ~IsNaN(b) /\ a = b

\* the cumulative benchmark value before point t, 100 before the first
PrevBenchmarkAt(pts, t) ==
  IF t = 1 THEN Hundred ELSE pts[t - 1].cumulativeBenchmark

\* C21: both cumulative series of the data are compounded from 100:
\* cumulative[t] = cumulative[t-1] * (1 + return[t]) for the strategy and for
\* the benchmark, and benchmarkReturn[t] is the fractional close-to-close
\* change of the price series.
C21_Compounded ==
  \A t \in 1..Len(points) :
    /\ NumEq(points[t].cumulativeStrategy,
             XMul(PrevCumulativeAt(points, t),
                  XAdd(One, points[t].strategyReturn)))
    /\ NumEq(points[t].cumulativeBenchmark,
             XMul(PrevBenchmarkAt(points, t),
                  XAdd(One, points[t].benchmarkReturn)))
    /\ NumEq(points[t].benchmarkReturn,
             XDiv(XSub(Num(priceSeries[t + 1].close), Num(priceSeries[t].close)),
                  Num(priceSeries[t].close)))

\* the largest of a non-empty set of finite numbers
MaxOf(S) == CHOOSE x \in S : \A y \in S : XGe(x, y)

\* the running maximum of cumulativeStrategy over the points 1..t
RunningPeak(pts, t) == MaxOf({pts[u].cumulativeStrategy : u \in 1..t})

\* (runningPeak - currentValue) / runningPeak at point t
DrawdownAt(pts, t) ==
  XDiv(XSub(RunningPeak(pts, t), pts[t].cumulativeStrategy), RunningPeak(pts, t))

\* every cumulative strategy value is a finite number above 0
AllPositive(pts) ==
  \A t \in 1..Len(pts) :
    IsFinite(pts[t].cumulativeStrategy) /\ XGt(pts[t].cumulativeStrategy, Zero)

\* C22: the maxDrawdown of the returned metrics is the largest
\* (runningPeak - currentValue) / runningPeak over the points, as a fraction
\* (0.1 for a decline of 10%), the first point setting the peak.
C22_DrawdownFraction ==
  (pc = "done" /\ points # <<>> /\ AllPositive(points)) =>
    NumEq(metrics.maxDrawdown,
          MaxOf({DrawdownAt(points, t) : t \in 1..Len(points)}))

\* C23: runRealBacktest annualizes with 365 days for BTC-USD and ETH-USD and
\* with 252 days for S&P 500, CSI 300 and CUSTOM_A.
C23_DaysInYear ==
  pc = "done" =>
    /\ benchmark \in {BTC_USD, ETH_USD} => metrics.daysInYear = 365
    /\ benchmark \in {SP_500, CSI_300, CUSTOM_A} => metrics.daysInYear = 252
    /\ benchmark \in {BTC_USD, ETH_USD, SP_500, CSI_300, CUSTOM_A}
    /\ metrics.annualizedReturn =
         AnnReturn(cumStrategy, metrics.daysInYear, Len(points))

\* a returned run on the benchmark that is in no mapping table
C23_Witness ==
  /\ pc = "done"
  /\ benchmark = CUSTOM_A
  /\ Len(points) >= 2

\* the position at the end of the day of point t, 0 before the first point
RECURSIVE PositionAfter(_, _)
PositionAfter(pts, t) ==
  IF t = 0 THEN 0
  ELSE IF pts[t].signal = "BUY" THEN 1
  ELSE IF pts[t].signal = "SELL" THEN 0
  ELSE PositionAfter(pts, t - 1)

\* C24: the strategyReturn of a day is 0 when the position was FLAT at the
\* end of the previous day (the day of a BUY included) and is the day's
\* benchmarkReturn when it was LONG (the day of a SELL included).
C24_ReturnFollowsPosition ==
  \A t \in 1..Len(points) :
    IF PositionAfter(points, t - 1) = 0
    THEN NumEq(points[t].strategyReturn, Zero)
    ELSE NumEq(points[t].strategyReturn, points[t].benchmarkReturn)

\* the data of the payload has a BUY or a SELL
CarriesSignals(p) ==
  /\ p.data # <<>>
  /\ \E t \in 1..Len(p.data[1]) : p.data[1][t].signal # "NONE"

\* the trades field of the reply of the execution service
ReportedTrades == IF reply[1].result = <<>> THEN <<>>
                  ELSE reply[1].result[1].trades

\* C25 as stated: whenever the returned data carries signals the returned
\* trades are the ledger rebuilt from that data and the fetched price series.
C25_RebuiltWhenSignals ==
  (rbpc = "returned" /\ op = "runBacktest" /\ CarriesSignals(payload[1])) =>
    /\ data = payload[1].data[1]
    /\ priceSeries = priceData
    /\ payload[1].trades = <<ledger>>

\* C25 (amended): the returned trades are the ledger rebuilt from the
\* returned data and the fetched price series whenever that ledger is not
\* empty; otherwise (no data, no signal, or signals that open no position at
\* a usable price) the trades field of the service's reply is returned as is.
C25_RebuiltWhenNotEmpty ==
  (rbpc = "returned" /\ op = "runBacktest") =>
    /\ HasData(payload[1]) =>
         (ltpc = "done" /\ data = payload[1].data[1] /\ priceSeries = priceData)
    /\ ~HasData(payload[1]) => ledger = <<>>
    /\ payload[1].trades = IF ledger # <<>> THEN <<ledger>> ELSE ReportedTrades

\* a rebuilt ledger has replaced the trades the service reported
C25_Witness ==
  /\ rbpc = "returned"
  /\ ReportedTrades = <<ServiceTrades>>
  /\ Len(ledger) = 2
  /\ payload[1].trades = <<ledger>>

\* C26: completeGithubLogin exchanges the code, and stores a session, only
\* when the state of the callback URL equals the state startGithubLogin
\* saved (so never with a missing or mismatching state, or with no saved
\* state), and the saved state is gone on every path past the code check.
C26_StateChecked ==
  /\ lpc \in {"exchange", "user"} =>
       /\ storedState # ""
       /\ url.state = storedState
  /\ (lpc \in {"exchange", "user", "thrown"} /\ url.flag = "1"
        /\ url.code # "") => oauthState = ""

\* C27: after handleLogout the page stays logged out and empty until the
\* next login: user is null, the factor list is empty and no factor is
\* active, whatever answer arrives afterwards.
C27_StaysLoggedOut ==
  loggedOut => /\ user = ""
               /\ factors = <<>>
               /\ activeFactorId = ""

\* C28: once no simulation request is in flight the simulationData shown
\* (with no error shown) is the result of the simulation started last, and
\* isSimulating is true exactly while a request is in flight.
C28_LastStartedWins ==
  /\ (simRequests = {} /\ simulationData # <<>> /\ appError = "") =>
       /\ lastStarted # <<>>
       /\ simulationData[1].factor = lastStarted[1].factor
       /\ simulationData[1].benchmark = lastStarted[1].benchmark
  /\ isSimulating <=> simRequests # {}

====
